---- MODULE Spec2Model ----
(***************************************************************************)
(* Batch-fetch job orchestrator of the spreadsheet view-count tool.        *)
(*                                                                         *)
(* The model follows the process-excel edge function (processJob, serve),  *)
(* the client hooks that mutate the processing_jobs record (useCreateJob,  *)
(* usePauseJob, useResumeJob, useUpdateJob) and the status page that       *)
(* issues the pause / resume / cancel requests.  Every awaited call of     *)
(* processJob that touches the job record, the settings table or the blob  *)
(* store is one step of a worker, so that concurrent invocations and       *)
(* client requests interleave exactly where the code can be preempted.     *)
(***************************************************************************)
EXTENDS Integers, Naturals, Sequences, FiniteSets, TLC

\* ------------------------------------------------------------------ bounds
MaxLinks == 2          \* links in the uploaded sheet (Spec)
MaxInvocations == 2    \* invocations of the entrypoint for the job
MaxRequests == 2       \* pause / resume / cancel requests of the user
MaxDomainOnly == 1     \* domain-only cells, counted by the client scan only
MaxRow == 2            \* populated rows of the worksheet (SheetSpec)
MaxCol == 3            \* populated columns of the worksheet (SheetSpec)
MaxCells == 4          \* non-empty cells of the worksheet (SheetSpec)

\* ------------------------------------------------------- program constants
batchSize == 10

Workers == 1..MaxInvocations
ApiModes == {"demo", "hiker", "apify"}
JobStatus == {"pending", "processing", "completed", "failed", "paused"}

VARIABLES
    job,         \* the processing_jobs row of the job
    links,       \* number of usable links in the source sheet
    workers,     \* one record per invocation of processJob
    clientView,  \* job.status as last fetched by the status page (useJob)
    resumePc,    \* position of the useResumeJob mutation
    nreq,        \* number of pause / resume / cancel requests issued
    req,         \* request performed by the last step ("none" otherwise)
    sheet,       \* the first worksheet of the workbook, cell -> content
    format,      \* layout answered by detectFormat
    plan,        \* instagramLinks: the links with their views cells
    viewsByIgId, \* outcome of the fetch loop, keyed by Instagram id
    sheetPc,     \* position of the worksheet pipeline of processJob
    loop,        \* locals of the fetch loop of processJob, link by link
    apifyRun,    \* the running call of fetchWithApify
    hikerCall,   \* the running call of fetchSingleHikerUrl
    bootstrap    \* users, roles and requests of the bootstrap-admin endpoint

sheetVars == <<sheet, format, plan, viewsByIgId, sheetPc>>

callVars == <<loop, apifyRun, hikerCall, bootstrap>>

vars == <<job, links, workers, clientView, resumePc, nreq, req, sheetVars, callVars>>

\* ------------------------------------------------------------------- state
\* useCreateJob: the row inserted for a submission.  total_links is the
\* count of the client-side scan; source_file_path is a nullable column
\* (TRUE: a path is stored); the remaining columns take their defaults.
NewJob(totalLinks, sourceFilePath) ==
    [ status            |-> "pending",
      total_links       |-> totalLinks,
      source_file_path  |-> sourceFilePath,
      processed_links   |-> 0,
      failed_links      |-> 0,
      paused_at         |-> FALSE,
      resume_from_index |-> 0,
      error_message     |-> "null",
      result_file_path  |-> FALSE ]

\* last: what the provider call of the current iteration came back with
\* ("none" outside the iteration).
IdleWorker ==
    [ pc |-> "idle", i |-> 0, processedCount |-> 0, failedCount |-> 0,
      apiMode |-> "demo", by |-> "none", resumeBase |-> 0, last |-> "none" ]

\* The orchestrator specifications follow the job record and abstract the
\* worksheet to its number of links.
\* No fetch loop, provider call or bootstrap request is followed.
IdleLoop == [pc |-> "off", apiMode |-> "demo", i |-> 0, failedCount |-> 0]

IdleRun ==
    [pc |-> "idle", attempts |-> 0, polls |-> 0, status |-> "none",
     items |-> <<>>, batchViews |-> <<>>]

IdleCall == [pc |-> "idle"]

NoBootstrap == [pc |-> "off"]

NoCalls ==
    /\ loop = IdleLoop
    /\ apifyRun = IdleRun
    /\ hikerCall = IdleCall
    /\ bootstrap = NoBootstrap

NoSheet ==
    /\ sheet = <<>>
    /\ format = "vertical"
    /\ plan = <<>>
    /\ viewsByIgId = <<>>
    /\ sheetPc = "off"

\* The client scan (parseExcelFile) counts every cell isInstagramUrl accepts,
\* the worker only those with an extractable id.  The client refuses a file
\* in which its scan finds nothing, so a job has at least one such cell.
Init ==
    /\ links \in 0..MaxLinks \cup {batchSize + 1}
    /\ \E domainOnly \in 0..MaxDomainOnly, sourceFilePath \in BOOLEAN :
          /\ links + domainOnly > 0
          /\ job = NewJob(links + domainOnly, sourceFilePath)
    /\ workers = [w \in Workers |-> IdleWorker]
    /\ clientView = "pending"
    /\ resumePc = "idle"
    /\ nreq = 0
    /\ req = "none"
    /\ NoSheet
    /\ NoCalls

Min(a, b) == IF a < b THEN a ELSE b

\* ------------------------------------------------------------- entrypoint
\* serve: every request starts processJob in the background and returns.
FreeSlot(w) ==
    /\ workers[w].pc = "idle"
    /\ \A v \in Workers : v < w => workers[v].pc # "idle"

Invoke(w, origin) ==
    workers' = [workers EXCEPT ![w] =
        [IdleWorker EXCEPT !.pc = "select", !.by = origin,
                           !.resumeBase = IF origin = "resume"
                                          THEN job.processed_links ELSE 0]]

\* The submission page invokes the entrypoint for the job it created.
Submit ==
    /\ job.status = "pending"
    /\ \A w \in Workers : workers[w].pc = "idle"
    /\ \E w \in Workers : FreeSlot(w) /\ Invoke(w, "submit")
    /\ req' = "none"
    /\ UNCHANGED <<job, links, clientView, resumePc, nreq, sheetVars, callVars>>

\* ------------------------------------------------------------- processJob
Step(w, f) == workers' = [workers EXCEPT ![w] = f]

\* Control has left the try block: only the catch handler remains.
Thrown == [IdleWorker EXCEPT !.pc = "catch"]

\* processJob has returned after its last update.
Returned == [IdleWorker EXCEPT !.pc = "done"]

\* processJob has returned from its catch handler.
Aborted == [IdleWorker EXCEPT !.pc = "aborted"]

\* The call of the entrypoint failed before processJob was started.
Rejected == [IdleWorker EXCEPT !.pc = "rejected"]

Silent == req' = "none" /\ UNCHANGED <<links, clientView, resumePc, nreq, sheetVars, callVars>>

\* select('*').eq('id', jobId).single(), then the check of the source path:
\* a row without source_file_path throws before the status update.
SelectJob(w) ==
    /\ workers[w].pc = "select"
    /\ IF job.source_file_path
       THEN Step(w, [workers[w] EXCEPT !.pc = "claim"])
       ELSE Step(w, [Thrown EXCEPT !.by = workers[w].by])
    /\ Silent
    /\ UNCHANGED job

\* update({ status: 'processing' }).eq('id', jobId)
ProcessingRow(j) == [j EXCEPT !.status = "processing"]

UpdateProcessing(w) ==
    /\ workers[w].pc = "claim"
    /\ job' = ProcessingRow(job)
    /\ Step(w, [workers[w] EXCEPT !.pc = "download"])
    /\ Silent

\* storage download, workbook load, link scan, format detection, placement.
\* A failed download or a workbook without worksheet throws.
DownloadAndPlan(w) ==
    /\ workers[w].pc = "download"
    /\ \/ Step(w, [workers[w] EXCEPT !.pc = "total"])
       \/ Step(w, [Thrown EXCEPT !.by = workers[w].by])
    /\ Silent
    /\ UNCHANGED job

\* update({ total_links: instagramLinks.length })
TotalLinksRow(j, n) == [j EXCEPT !.total_links = n]

UpdateTotalLinks(w) ==
    /\ workers[w].pc = "total"
    /\ job' = TotalLinksRow(job, links)
    /\ Step(w, [workers[w] EXCEPT !.pc = "settings"])
    /\ Silent

\* Past the loop the invocation reads, of its locals, failedCount only.
AfterLoop(me) ==
    [IdleWorker EXCEPT !.pc = "upload", !.by = me.by, !.failedCount = me.failedCount]

\* from('app_settings').select('api_mode').single(), then the provider key
\* lookup of the chosen branch (a missing key throws).  The settings row is
\* written by the admin page at any time (useUpdateApiMode), so the value
\* read is any of the three modes.  The loop starts at i = 0 with both
\* counters at 0.
ReadSettings(w) ==
    /\ workers[w].pc = "settings"
    /\ \E api_mode \in ApiModes :
          \/ Step(w, IF links > 0
                      THEN [workers[w] EXCEPT
                              !.apiMode = api_mode, !.i = 0,
                              !.processedCount = 0, !.failedCount = 0,
                              !.pc = "fetch"]
                      ELSE AfterLoop(workers[w]))
          \/ /\ api_mode # "demo"
             /\ Step(w, [Thrown EXCEPT !.by = workers[w].by])
    /\ Silent
    /\ UNCHANGED job

\* demo branch: the progress update is issued every batchSize links and on
\* the last link.
DemoCheckpointEveryTen(i, n) == (i + 1) % batchSize = 0

DemoCheckpointDue(i, n) == ((i + 1) % batchSize = 0) \/ (i = n - 1)

\* apify branch: processedCount = Math.min(i + batchSize, urls.length)
ApifyProcessedNoClamp(i, n) == i + batchSize

ApifyProcessed(i, n) == Min(i + batchSize, n)

\* hiker branch, one link: fetchSingleHikerUrl never throws, it answers the
\* view count, 'N/A' or 'Error'; 'Error' and 'N/A' both count as failed.
HikerOutcomes == {"views", "N/A", "Error"}

AfterHikerUncounted(me, outcome) ==
    [me EXCEPT !.processedCount = me.i + 1,
               !.pc = "ckpt",
               !.last = outcome]

AfterHiker(me, outcome) ==
    [me EXCEPT !.failedCount = IF outcome \in {"Error", "N/A"}
                               THEN me.failedCount + 1 ELSE me.failedCount,
               !.processedCount = me.i + 1,
               !.pc = "ckpt",
               !.last = outcome]

\* apify branch, one batch urls.slice(i, i + batchSize) of len urls.
\* fetchWithApify returned a map in which k ids are 'Error'.
AfterApify(me, n, k) ==
    [me EXCEPT !.failedCount = me.failedCount + k,
               !.processedCount = ApifyProcessed(me.i, n),
               !.pc = "ckpt",
               !.last = "map"]

\* fetchWithApify threw: "api" for a failed request or a run that ended
\* FAILED / ABORTED, "timeout" for 'Actor run timed out'.  The catch of the
\* batch marks every url of the batch 'Error' and the loop goes on.
ApifyExceptions == {"api", "timeout"}

BatchCaught(me, n, len, exception) ==
    [me EXCEPT !.failedCount = me.failedCount + len,
               !.processedCount = ApifyProcessed(me.i, n),
               !.pc = "ckpt",
               !.last = exception]

\* Body of one loop iteration up to its awaited job update.
\*   demo : generateDemoViews(), processedCount++
\*   hiker: fetchSingleHikerUrl
\*   apify: fetchWithApify inside the try / catch of the batch
Fetch(w) ==
    LET me == workers[w] IN
    /\ me.pc = "fetch"
    /\ \/ /\ me.apiMode = "demo"
          /\ Step(w, [me EXCEPT
                        !.processedCount = me.processedCount + 1,
                        !.pc = IF DemoCheckpointDue(me.i, links) THEN "ckpt" ELSE "fetch",
                        !.i = IF DemoCheckpointDue(me.i, links) THEN me.i ELSE me.i + 1])
       \/ /\ me.apiMode = "hiker"
          /\ \E outcome \in HikerOutcomes : Step(w, AfterHiker(me, outcome))
       \/ /\ me.apiMode = "apify"
          /\ LET len == Min(me.i + batchSize, links) - me.i IN
             \/ \E k \in 0..len : Step(w, AfterApify(me, links, k))
             \/ \E exception \in ApifyExceptions :
                   Step(w, BatchCaught(me, links, len, exception))
    /\ Silent
    /\ UNCHANGED job

\* The awaited progress update of the iteration.
\*   demo        : update({ processed_links })
\*   hiker, apify: update({ processed_links, failed_links })
CheckpointRowFailedOnly(j, me) ==
    IF me.apiMode = "demo" THEN j ELSE [j EXCEPT !.failed_links = me.failedCount]

CheckpointRow(j, me) ==
    IF me.apiMode = "demo"
    THEN [j EXCEPT !.processed_links = me.processedCount]
    ELSE [j EXCEPT !.processed_links = me.processedCount,
                   !.failed_links = me.failedCount]

NextIndex(me) == IF me.apiMode = "apify" THEN me.i + batchSize ELSE me.i + 1

Checkpoint(w) ==
    LET me == workers[w] IN
    /\ me.pc = "ckpt"
    /\ job' = CheckpointRow(job, me)
    /\ Step(w, IF NextIndex(me) < links
               THEN [me EXCEPT !.i = NextIndex(me), !.last = "none", !.pc = "fetch"]
               ELSE AfterLoop(me))
    /\ Silent

\* cell writes, writeBuffer and storage upload of the result; an upload
\* error throws.
WriteAndUpload(w) ==
    /\ workers[w].pc = "upload"
    /\ \/ Step(w, [workers[w] EXCEPT !.pc = "complete"])
       \/ Step(w, [Thrown EXCEPT !.by = workers[w].by])
    /\ Silent
    /\ UNCHANGED job

\* update({ status: 'completed', result_file_path, processed_links:
\*          instagramLinks.length, failed_links: failedCount, completed_at })
CompletedRowNoStatus(j, n, failedCount) ==
    [j EXCEPT !.result_file_path = TRUE,
              !.processed_links = n,
              !.failed_links = failedCount]

CompletedRow(j, n, failedCount) ==
    [j EXCEPT !.status = "completed",
              !.result_file_path = TRUE,
              !.processed_links = n,
              !.failed_links = failedCount]

MarkCompleted(w) ==
    /\ workers[w].pc = "complete"
    /\ job' = CompletedRow(job, links, workers[w].failedCount)
    /\ Step(w, [Returned EXCEPT !.by = workers[w].by])
    /\ Silent

\* catch: update({ status: 'failed', error_message })
FailedRowNoMessage(j, message) == [j EXCEPT !.status = "failed"]

FailedRowReset(j, message) ==
    [j EXCEPT !.status = "failed", !.error_message = message,
              !.processed_links = 0, !.result_file_path = FALSE]

FailedRow(j, message) == [j EXCEPT !.status = "failed", !.error_message = message]

MarkFailed(w) ==
    /\ workers[w].pc = "catch"
    /\ job' = FailedRow(job, "error")
    /\ Step(w, [Aborted EXCEPT !.by = workers[w].by])
    /\ Silent

processJob(w) ==
    \/ SelectJob(w)
    \/ UpdateProcessing(w)
    \/ DownloadAndPlan(w)
    \/ UpdateTotalLinks(w)
    \/ ReadSettings(w)
    \/ Fetch(w)
    \/ Checkpoint(w)
    \/ WriteAndUpload(w)
    \/ MarkCompleted(w)
    \/ MarkFailed(w)

\* ------------------------------------------------------------ status page
\* useJob: the page shows the row as of its last fetch (polling / realtime
\* invalidation), so a button can be pressed on a view the row has left.
Refetch ==
    /\ clientView # job.status
    /\ clientView' = job.status
    /\ req' = "none"
    /\ UNCHANGED <<job, links, workers, resumePc, nreq, sheetVars, callVars>>

\* usePauseJob: update({ status: 'paused', paused_at }).eq('id', jobId)
PausedRow(j) == [j EXCEPT !.status = "paused", !.paused_at = TRUE]

\* handlePause, rendered while the page shows the job as processing.
Pause ==
    /\ clientView = "processing"
    /\ nreq < MaxRequests
    /\ job' = PausedRow(job)
    /\ nreq' = nreq + 1
    /\ req' = "pause"
    /\ UNCHANGED <<links, workers, clientView, resumePc, sheetVars, callVars>>

\* useResumeJob, first call: update({ status: 'processing', paused_at: null })
ResumedRow(j) == [j EXCEPT !.status = "processing", !.paused_at = FALSE]

\* handleResume, rendered while the page shows the job as paused; the button
\* is disabled while the mutation is pending.
ResumeUpdate ==
    /\ clientView = "paused"
    /\ resumePc = "idle"
    /\ nreq < MaxRequests
    /\ \E w \in Workers : FreeSlot(w)
    /\ job' = ResumedRow(job)
    /\ resumePc' = "invoke"
    /\ nreq' = nreq + 1
    /\ req' = "resume"
    /\ UNCHANGED <<links, workers, clientView, sheetVars, callVars>>

\* useResumeJob, second call: functions.invoke('process-excel', { jobId }).
\* The invocation either starts a worker or returns an error to the page.
ResumeInvoke ==
    /\ resumePc = "invoke"
    /\ \E w \in Workers :
          /\ FreeSlot(w)
          /\ \/ Invoke(w, "resume") /\ req' = "invoke"
             \/ Step(w, Rejected) /\ req' = "none"
    /\ resumePc' = "idle"
    /\ UNCHANGED <<job, links, clientView, nreq, sheetVars, callVars>>

\* handleCancel -> useUpdateJob: update({ status: 'failed', error_message })
Cancel ==
    /\ clientView \in {"processing", "paused"}
    /\ nreq < MaxRequests
    /\ job' = FailedRow(job, "cancelled")
    /\ nreq' = nreq + 1
    /\ req' = "cancel"
    /\ UNCHANGED <<links, workers, clientView, resumePc, sheetVars, callVars>>

\* ---------------------------------------------------------- specification
Next ==
    \/ Submit
    \/ \E w \in Workers : processJob(w)
    \/ Refetch
    \/ Pause
    \/ ResumeUpdate
    \/ ResumeInvoke
    \/ Cancel

InitShort == Init /\ links <= MaxLinks

Spec == InitShort /\ [][Next]_vars

\* Worker steps are scheduled fairly (EdgeRuntime.waitUntil keeps the
\* background promise running to its end), and the resume mutation issues
\* its second call once the first has returned.
Fairness ==
    /\ \A w \in Workers : WF_vars(processJob(w))
    /\ WF_vars(ResumeInvoke)

\* The liveness claims are checked on single-link sheets, which keeps the
\* behaviour graph small with every interleaving of workers and requests.
InitFair == InitShort /\ links = Min(1, MaxLinks)

FairSpec == InitFair /\ [][Next]_vars /\ Fairness

\* One invocation that runs undisturbed, on sheets of up to two batches and
\* MaxLinks more: the page only watches.
InitSolo ==
    /\ links \in 0..(2 * batchSize + MaxLinks)
    /\ \E domainOnly \in 0..MaxDomainOnly, sourceFilePath \in BOOLEAN :
          /\ links + domainOnly > 0
          /\ job = NewJob(links + domainOnly, sourceFilePath)
    /\ workers = [w \in Workers |-> IdleWorker]
    /\ clientView = "pending"
    /\ resumePc = "idle"
    /\ nreq = 0
    /\ req = "none"
    /\ NoSheet
    /\ NoCalls

NextSolo ==
    \/ Submit
    \/ \E w \in Workers : processJob(w)
    \/ Refetch

SoloSpec == InitSolo /\ [][NextSolo]_vars

\* Sheets one link longer than a batch: the shortest on which a progress
\* update is due before the last link.
InitLong == Init /\ links = batchSize + 1

SpecLong == InitLong /\ [][Next]_vars

\* -------------------------------------------------- worksheet pipeline
\* The part of processJob that works on the worksheet: scan of the links,
\* detectFormat, findSafeViewsCell for every link, and the write-back loop.
\* Cell contents are kept by what the two patterns make of them:
\*   "link"   matches INSTAGRAM_URL_PATTERN (an id can be extracted)
\*   "link_b" matches it too, with another id than "link"
\*   "domain" matches INSTAGRAM_DOMAIN_PATTERN only
\*   "text"   any other non-empty value
\*   "views", "N/A", "Error"  a value written by the write-back loop
Kinds == {"link", "domain", "text"}

\*   "number" a numeric value other than a written one
\* Cells the uploaded sheet populates, the cells the links of the layout
\* sheets lie in, and the cells the pipeline can address from them (two rows
\* below, two columns to the right).
Populated == (1..MaxRow) \X (1..MaxCol)

LinkArea == (1..MaxRow + 1) \X (1..MaxCol)

Cells == (1..MaxRow + 3) \X (1..MaxCol + 2)

isInstagramUrl(value) == value \in {"link", "link_b", "domain"}

\* The id (match[1]) of a value INSTAGRAM_URL_PATTERN matches, else null.
extractInstagramId(value) ==
    IF value = "link" THEN "a" ELSE IF value = "link_b" THEN "b" ELSE "null"

getCellValue(ws, r, c) == ws[<<r, c>>]

\* eachRow / eachCell visit the cells row by row, left to right.
RowMajor(c) == (c[1] - 1) * (MaxCol + 2) + c[2]

RECURSIVE InScanOrder(_)
InScanOrder(S) ==
    IF S = {} THEN <<>>
    ELSE LET first == CHOOSE c \in S : \A d \in S : RowMajor(c) <= RowMajor(d)
         IN  <<[row |-> first[1], col |-> first[2]]>> \o InScanOrder(S \ {first})

\* rawLinks: the cells isInstagramUrl accepts and an id is extracted from.
rawLinks(ws) ==
    InScanOrder({c \in Cells : /\ isInstagramUrl(getCellValue(ws, c[1], c[2]))
                               /\ extractInstagramId(getCellValue(ws, c[1], c[2])) # "null"})

\* Two links of one row, adjacent in the sorted columns of the row, are two
\* columns apart.
GapOfTwo(ls) ==
    \E i, j \in 1..Len(ls) :
        /\ ls[i].row = ls[j].row
        /\ ls[j].col - ls[i].col = 2
        /\ ~\E k \in 1..Len(ls) : ls[k].row = ls[i].row /\ ls[k].col = ls[i].col + 1

detectFormat(ws, ls) ==
    IF Len(ls) < 2 THEN "vertical"
    ELSE IF GapOfTwo(ls) THEN "alternating"
    ELSE IF ls[1].row = ls[2].row THEN "horizontal-below"
    ELSE "vertical"

\* The test findSafeViewsCell applies to a candidate cell.
HoldsLink(ws, r, c, allLinks) ==
    isInstagramUrl(getCellValue(ws, r, c)) \/ <<r, c>> \in allLinks

\* The last candidate of either branch is returned without the test.
findSafeViewsCell(ws, link, fmt, allLinks) ==
    IF fmt = "horizontal-below"
    THEN IF ~HoldsLink(ws, link.row + 1, link.col, allLinks)
         THEN [row |-> link.row + 1, col |-> link.col]
         ELSE [row |-> link.row + 2, col |-> link.col]
    ELSE IF HoldsLink(ws, link.row, link.col + 1, allLinks)
         THEN IF HoldsLink(ws, link.row, link.col + 2, allLinks)
              THEN [row |-> link.row + 1, col |-> link.col]
              ELSE [row |-> link.row, col |-> link.col + 2]
         ELSE [row |-> link.row, col |-> link.col + 1]

\* instagramLinks = rawLinks.map(link => ({ ...link, viewsRow, viewsCol }))
instagramLinks(ws, ls, fmt) ==
    LET allLinkCells == {<<ls[i].row, ls[i].col>> : i \in 1..Len(ls)} IN
    [i \in 1..Len(ls) |->
        LET viewsCell == findSafeViewsCell(ws, ls[i], fmt, allLinkCells) IN
        [row |-> ls[i].row, col |-> ls[i].col,
         url |-> getCellValue(ws, ls[i].row, ls[i].col),
         igId |-> extractInstagramId(getCellValue(ws, ls[i].row, ls[i].col)),
         viewsRow |-> viewsCell.row, viewsCol |-> viewsCell.col]]

\* What the fetch of one link answers: a view count, 'N/A' or 'Error'; the
\* demo branch only generates view counts.
Outcomes(apiMode) == IF apiMode = "demo" THEN {"views"} ELSE HikerOutcomes

\* viewsByIgId[igId] = views for link after link: a later link with the id
\* of an earlier one replaces its entry.
MergeViews(ls, result) ==
    [id \in {ls[i].igId : i \in 1..Len(ls)} |->
        LET last == CHOOSE i \in 1..Len(ls) :
                        /\ ls[i].igId = id
                        /\ \A j \in 1..Len(ls) : ls[j].igId = id => j <= i
        IN  result[last]]

RECURSIVE WriteViewsOnce(_, _, _, _)
WriteViewsOnce(ws, ls, k, byId) ==
    IF k > Len(ls) THEN ws
    ELSE IF \/ ls[k].igId \notin DOMAIN byId
            \/ \E j \in 1..(k - 1) : ls[j].igId = ls[k].igId
         THEN WriteViewsOnce(ws, ls, k + 1, byId)
    ELSE WriteViewsOnce([ws EXCEPT ![<<ls[k].viewsRow, ls[k].viewsCol>>] =
                                          byId[ls[k].igId]],
                        ls, k + 1, byId)

\* The write-back loop from link k on: a link whose id has no entry is
\* skipped, else cell.value = views, link after link.
RECURSIVE WriteViews(_, _, _, _)
WriteViews(ws, ls, k, byId) ==
    IF k > Len(ls) THEN ws
    ELSE IF ls[k].igId \notin DOMAIN byId THEN WriteViews(ws, ls, k + 1, byId)
    ELSE WriteViews([ws EXCEPT ![<<ls[k].viewsRow, ls[k].viewsCol>>] =
                                      byId[ls[k].igId]],
                    ls, k + 1, byId)

\* The worksheet with the cells of P filled as f says.
Worksheet(P, f) == [c \in Cells |-> IF c \in P THEN f[c] ELSE "empty"]

LinkCount(ws) == Cardinality({c \in Cells : extractInstagramId(ws[c]) # "null"})

\* The job of the sheet is as created by the client, with no invocation yet.
\* A loaded worksheet has up to MaxCells non-empty cells of any kind.
InitSheet ==
    /\ \E P \in SUBSET Populated :
          /\ Cardinality(P) <= MaxCells
          /\ \E f \in [P -> Kinds] : sheet = Worksheet(P, f)
    /\ format = "vertical"
    /\ plan = <<>>
    /\ viewsByIgId = <<>>
    /\ sheetPc = "loaded"
    /\ NoCalls
    /\ links = LinkCount(sheet)
    /\ job = NewJob(Cardinality({c \in Cells : isInstagramUrl(sheet[c])}), TRUE)
    /\ workers = [w \in Workers |-> IdleWorker]
    /\ clientView = "pending"
    /\ resumePc = "idle"
    /\ nreq = 0
    /\ req = "none"

Offstage == UNCHANGED <<job, links, workers, clientView, resumePc, nreq, req, callVars>>

\* Scan, layout detection and placement plan.
PlanPlacement ==
    /\ sheetPc = "loaded"
    /\ format' = detectFormat(sheet, rawLinks(sheet))
    /\ plan' = instagramLinks(sheet, rawLinks(sheet), format')
    /\ sheetPc' = "planned"
    /\ UNCHANGED <<sheet, viewsByIgId>>
    /\ Offstage

\* The fetch loop of the mode, as far as the outcomes go.
FetchViews ==
    /\ sheetPc = "planned"
    /\ \E apiMode \in ApiModes :
          \E result \in [1..Len(plan) -> Outcomes(apiMode)] :
              viewsByIgId' = MergeViews(plan, result)
    /\ sheetPc' = "fetched"
    /\ UNCHANGED <<sheet, format, plan>>
    /\ Offstage

\* Write-back of the outcomes.
WriteBack ==
    /\ sheetPc = "fetched"
    /\ sheet' = WriteViews(sheet, plan, 1, viewsByIgId)
    /\ sheetPc' = "written"
    /\ UNCHANGED <<format, plan, viewsByIgId>>
    /\ Offstage

NextSheet == PlanPlacement \/ FetchViews \/ WriteBack

SheetSpec == InitSheet /\ [][NextSheet]_vars

\* Sheets of links only, of two ids and up to one link more than MaxLinks,
\* so that an id repeats next to another id.
Reels == {"link", "link_b"}

InitJoin ==
    /\ \E P \in SUBSET Populated :
          /\ Cardinality(P) <= MaxLinks + 1
          /\ \E f \in [P -> Reels] : sheet = Worksheet(P, f)
    /\ format = "vertical"
    /\ plan = <<>>
    /\ viewsByIgId = <<>>
    /\ sheetPc = "loaded"
    /\ NoCalls
    /\ links = LinkCount(sheet)
    /\ job = NewJob(links, TRUE)
    /\ workers = [w \in Workers |-> IdleWorker]
    /\ clientView = "pending"
    /\ resumePc = "idle"
    /\ nreq = 0
    /\ req = "none"

JoinSpec == InitJoin /\ [][NextSheet]_vars

\* ------------------------------------------------ client-side pipeline
\* parseExcelFile and updateExcelWithViews of the client library, which scan,
\* classify, place and write on their own.

\* !value || value.trim() === ''
isEmpty(value) == value = "empty"

\* !isNaN(Number(value)); Number('') is 0.
isNumber(value) == value \in {"empty", "number", "views"}

\* First pass: every cell isInstagramUrl accepts is a link.
clientLinks(ws) ==
    InScanOrder({c \in Cells : isInstagramUrl(getCellValue(ws, c[1], c[2]))})

uniqueLinkCols(ls) == {ls[i].col : i \in 1..Len(ls)}

\* gaps.every(g => g === 2) over the sorted columns.
AllGapsTwo(cols) ==
    \A c \in cols :
        \/ \A d \in cols : c <= d
        \/ c - 2 \in cols /\ c - 1 \notin cols

hasMultipleLinksPerRow(ls) ==
    \E i, j \in 1..Len(ls) : i # j /\ ls[i].row = ls[j].row

\* The vote of one link: "right", "below", or "none".
Vote(ws, link) ==
    LET rightValue == getCellValue(ws, link.row, link.col + 1)
        belowValue == getCellValue(ws, link.row + 1, link.col)
    IN  IF isInstagramUrl(belowValue) THEN "right"
        ELSE IF isInstagramUrl(rightValue) THEN "below"
        ELSE IF /\ isEmpty(rightValue) \/ isNumber(rightValue)
                /\ ~isEmpty(belowValue) /\ ~isNumber(belowValue) THEN "right"
        ELSE IF /\ isEmpty(belowValue) \/ isNumber(belowValue)
                /\ ~isEmpty(rightValue) /\ ~isNumber(rightValue) THEN "below"
        ELSE IF isEmpty(rightValue) /\ isEmpty(belowValue) THEN "right"
        ELSE IF isNumber(rightValue) /\ ~isNumber(belowValue) THEN "right"
        ELSE IF isNumber(belowValue) /\ ~isNumber(rightValue) THEN "below"
        ELSE "none"

preferRight(ws, ls) == Cardinality({i \in 1..Len(ls) : Vote(ws, ls[i]) = "right"})

preferBelow(ws, ls) == Cardinality({i \in 1..Len(ls) : Vote(ws, ls[i]) = "below"})

parseFormatTie(ws, ls) ==
    IF Cardinality(uniqueLinkCols(ls)) >= 2 /\ AllGapsTwo(uniqueLinkCols(ls))
    THEN "alternating"
    ELSE IF hasMultipleLinksPerRow(ls) /\ preferBelow(ws, ls) >= preferRight(ws, ls)
    THEN "horizontal"
    ELSE "vertical"

\* The format parseExcelFile answers.
parseFormat(ws, ls) ==
    IF Cardinality(uniqueLinkCols(ls)) >= 2 /\ AllGapsTwo(uniqueLinkCols(ls))
    THEN "alternating"
    ELSE IF hasMultipleLinksPerRow(ls) /\ preferBelow(ws, ls) > preferRight(ws, ls)
    THEN "horizontal"
    ELSE "vertical"

\* Placement by format, then the post-processing validation: a target that
\* holds an Instagram URL is moved right, else below, else left as it is.
\* (A views header only maps a link column to the column after it.)
clientPlacement(ws, link, fmt) ==
    LET right == <<link.row, link.col + 1>>
        below == <<link.row + 1, link.col>>
        target == IF fmt = "horizontal" THEN below ELSE right
    IN  IF ~isInstagramUrl(ws[target]) THEN target
        ELSE IF ~isInstagramUrl(ws[right]) THEN right
        ELSE IF ~isInstagramUrl(ws[below]) THEN below
        ELSE target

clientPlan(ws, ls, fmt) ==
    [i \in 1..Len(ls) |->
        LET viewsCell == clientPlacement(ws, ls[i], fmt) IN
        [row |-> ls[i].row, col |-> ls[i].col,
         url |-> getCellValue(ws, ls[i].row, ls[i].col),
         viewsRow |-> viewsCell[1], viewsCol |-> viewsCell[2]]]

NoCell == <<0, 0>>

\* findSafeViewsCell of the client writer: the first candidate that is not
\* the link cell, holds no Instagram URL and is empty or numeric; else null.
clientFindSafeViewsCell(ws, link) ==
    LET candidates == << <<link.viewsRow, link.viewsCol>>,
                         <<link.row, link.col + 1>>,
                         <<link.row + 1, link.col>> >>
        safe == {k \in 1..3 :
                    /\ candidates[k] # <<link.row, link.col>>
                    /\ ~isInstagramUrl(ws[candidates[k]])
                    /\ \/ isEmpty(ws[candidates[k]])
                       \/ ~isEmpty(ws[candidates[k]]) /\ isNumber(ws[candidates[k]])}
    IN  IF safe = {} THEN NoCell
        ELSE candidates[CHOOSE k \in safe : \A m \in safe : k <= m]

\* The loop of updateExcelWithViews from link k on.
RECURSIVE updateExcelWithViews(_, _, _, _)
updateExcelWithViews(ws, ls, k, viewsMap) ==
    IF k > Len(ls) THEN ws
    ELSE IF ls[k].url \notin DOMAIN viewsMap
         THEN updateExcelWithViews(ws, ls, k + 1, viewsMap)
    ELSE LET safeCell == clientFindSafeViewsCell(ws, ls[k]) IN
         IF safeCell = NoCell \/ isInstagramUrl(ws[safeCell])
         THEN updateExcelWithViews(ws, ls, k + 1, viewsMap)
         ELSE updateExcelWithViews([ws EXCEPT ![safeCell] = viewsMap[ls[k].url]],
                                   ls, k + 1, viewsMap)

\* Fillers of the cells right of and below a link of a layout sheet.
Fillers == {"empty", "text", "number"}

\* A layout sheet: up to MaxCells links, up to MaxDomainOnly domain-only
\* cells, and one content for the cells right of the links and one for the
\* cells below them.
Layout(L, D, right, below) ==
    [c \in Cells |->
        IF c \in L THEN "link"
        ELSE IF c \in D THEN "domain"
        ELSE IF <<c[1], c[2] - 1>> \in L THEN right
        ELSE IF <<c[1] - 1, c[2]>> \in L THEN below
        ELSE "empty"]

InitLayout ==
    /\ \E L \in SUBSET LinkArea, D \in SUBSET Populated :
          /\ Cardinality(L) <= MaxCells
          /\ Cardinality(D) <= MaxDomainOnly
          /\ \E right, below \in Fillers : sheet = Layout(L, D, right, below)
    /\ format = "vertical"
    /\ plan = <<>>
    /\ viewsByIgId = <<>>
    /\ sheetPc = "loaded"
    /\ NoCalls
    /\ links = LinkCount(sheet)
    /\ job = NewJob(Cardinality({c \in Cells : isInstagramUrl(sheet[c])}), TRUE)
    /\ workers = [w \in Workers |-> IdleWorker]
    /\ clientView = "pending"
    /\ resumePc = "idle"
    /\ nreq = 0
    /\ req = "none"

\* parseExcelFile: throws when the sheet holds no Instagram URL.
ParseExcelFile ==
    /\ sheetPc = "loaded"
    /\ IF clientLinks(sheet) = <<>>
       THEN /\ sheetPc' = "thrown"
            /\ UNCHANGED <<format, plan>>
       ELSE /\ format' = parseFormat(sheet, clientLinks(sheet))
            /\ plan' = clientPlan(sheet, clientLinks(sheet), format')
            /\ sheetPc' = "parsed"
    /\ UNCHANGED <<sheet, viewsByIgId>>
    /\ Offstage

\* The viewsMap handed to the writer: url -> views, 'N/A' or 'Error', for
\* some or all urls of the plan.
FetchMap ==
    /\ sheetPc = "parsed"
    /\ \E urls \in SUBSET {plan[i].url : i \in 1..Len(plan)} :
          \E viewsMap \in [urls -> HikerOutcomes] : viewsByIgId' = viewsMap
    /\ sheetPc' = "mapped"
    /\ UNCHANGED <<sheet, format, plan>>
    /\ Offstage

\* updateExcelWithViews on the workbook of excelData, a first and a second
\* time with the same viewsMap.
UpdateExcel ==
    /\ sheetPc \in {"mapped", "updated"}
    /\ sheet' = updateExcelWithViews(sheet, plan, 1, viewsByIgId)
    /\ sheetPc' = IF sheetPc = "mapped" THEN "updated" ELSE "updated again"
    /\ UNCHANGED <<format, plan, viewsByIgId>>
    /\ Offstage

NextClient == ParseExcelFile \/ FetchMap \/ UpdateExcel

\* Both pipelines on the layout sheets.
NextLayout == NextSheet \/ NextClient

LayoutSpec == InitLayout /\ [][NextLayout]_vars

\* Layout sheets for the placement vote alone (the client scan takes a
\* domain-only cell for a link like any other, so none is set apart here).
InitVote ==
    /\ \E L \in SUBSET Populated :
          /\ Cardinality(L) <= MaxCells
          /\ \E right, below \in Fillers : sheet = Layout(L, {}, right, below)
    /\ format = "vertical"
    /\ plan = <<>>
    /\ viewsByIgId = <<>>
    /\ sheetPc = "loaded"
    /\ NoCalls
    /\ links = LinkCount(sheet)
    /\ job = NewJob(Cardinality({c \in Cells : isInstagramUrl(sheet[c])}), TRUE)
    /\ workers = [w \in Workers |-> IdleWorker]
    /\ clientView = "pending"
    /\ resumePc = "idle"
    /\ nreq = 0
    /\ req = "none"

VoteSpec == InitVote /\ [][ParseExcelFile]_vars

\* ------------------------------------------------- per-item provider call
\* What one request to the provider can come to: fetch() rejects, a response
\* that is not ok, an ok response whose body response.json() rejects, an ok
\* response with or without a number in one of the view fields.
Responses == {"rejected", "404", "200 not json", "200 no views", "200 views"}

\* response.ok
ResponseOk(response) == response \in {"200 not json", "200 no views", "200 views"}

tryHikerRequestUnparsed(response) ==
    IF ~ResponseOk(response) THEN [ok |-> FALSE]
    ELSE IF response = "200 views" THEN [ok |-> TRUE, views |-> "views"]
    ELSE [ok |-> TRUE, views |-> "undefined"]

tryHikerRequest(response) ==
    IF response = "rejected" \/ ~ResponseOk(response) THEN [ok |-> FALSE]
    ELSE IF response = "200 not json" THEN [ok |-> FALSE]
    ELSE IF response = "200 views" THEN [ok |-> TRUE, views |-> "views"]
    ELSE [ok |-> TRUE, views |-> "undefined"]

urlsToTry(url, igId) ==
    << [form |-> "original", of |-> url],
       [form |-> "reel", of |-> igId],
       [form |-> "p", of |-> igId] >>

InitHiker ==
    /\ \E url \in {"link", "link_b", "domain", "text"} :
          hikerCall = [pc |-> "start", url |-> url,
                       igId |-> extractInstagramId(url), tried |-> <<>>]
    /\ loop = IdleLoop
    /\ apifyRun = IdleRun
    /\ bootstrap = NoBootstrap
    /\ NoSheet
    /\ links = 1
    /\ job = ProcessingRow(NewJob(1, TRUE))
    /\ workers = [w \in Workers |-> IdleWorker]
    /\ clientView = "pending"
    /\ resumePc = "idle"
    /\ nreq = 0
    /\ req = "none"

\* fetchSingleHikerUrl up to its loop.
ExtractId ==
    /\ hikerCall.pc = "start"
    /\ hikerCall' =
          IF hikerCall.igId = "null"
          THEN [hikerCall EXCEPT !.pc = "returned"]
                   @@ [result |-> [igId |-> "", views |-> "Error"]]
          ELSE [hikerCall EXCEPT !.pc = "try"]
    /\ UNCHANGED <<job, links, workers, clientView, resumePc, nreq, req,
                   sheetVars, loop, apifyRun, bootstrap>>

\* One iteration of the loop over urlsToTry, and the return after the last.
TryUrl ==
    /\ hikerCall.pc = "try"
    /\ \E response \in Responses :
          LET n      == Len(hikerCall.tried) + 1
              target == urlsToTry(hikerCall.url, hikerCall.igId)[n]
              result == tryHikerRequest(response)
              tried  == Append(hikerCall.tried,
                               [targetUrl |-> target, response |-> response])
              igId   == hikerCall.igId
          IN  hikerCall' =
                 IF result.ok
                 THEN [hikerCall EXCEPT !.pc = "returned", !.tried = tried]
                         @@ [result |-> [igId |-> igId,
                                         views |-> IF result.views # "undefined"
                                                   THEN result.views ELSE "N/A"]]
                 ELSE IF n = Len(urlsToTry(hikerCall.url, igId))
                 THEN [hikerCall EXCEPT !.pc = "returned", !.tried = tried]
                         @@ [result |-> [igId |-> igId, views |-> "Error"]]
                 ELSE [hikerCall EXCEPT !.tried = tried]
    /\ UNCHANGED <<job, links, workers, clientView, resumePc, nreq, req,
                   sheetVars, loop, apifyRun, bootstrap>>

NextHiker == ExtractId \/ TryUrl

HikerSpec == InitHiker /\ [][NextHiker]_vars

\* ------------------------------------------------------- admin bootstrap
\* The bootstrap-admin handler, one call per caller, over auth.users (email by
\* user id, emails unique) and user_roles (role by user id; the trigger
\* on_auth_user_created inserts the row with role 'user').  A user gets the
\* id of the call that created it.
Emails == {"e1", "e2"}

Callers == 1..MaxRequests

InitBootstrap ==
    /\ \E email \in [Callers -> Emails] :
          bootstrap = [pc |-> "on",
                       users |-> <<>>,
                       user_roles |-> <<>>,
                       calls |-> [r \in Callers |->
                                     [pc |-> "check", email |-> email[r]]]]
    /\ loop = IdleLoop
    /\ apifyRun = IdleRun
    /\ hikerCall = IdleCall
    /\ NoSheet
    /\ links = 1
    /\ job = NewJob(1, TRUE)
    /\ workers = [w \in Workers |-> IdleWorker]
    /\ clientView = "pending"
    /\ resumePc = "idle"
    /\ nreq = 0
    /\ req = "none"

Backstage ==
    UNCHANGED <<job, links, workers, clientView, resumePc, nreq, req, sheetVars,
                loop, apifyRun, hikerCall>>

\* Users other than `except` that hold the admin role.
Admins(roles, except) ==
    {u \in DOMAIN roles : u # except /\ roles[u] = "admin"}

Without(f, u) == [v \in DOMAIN f \ {u} |-> f[v]]

\* auth.admin.deleteUser(id); the row of user_roles goes with the user.
deleteUser(b, u) ==
    [b EXCEPT !.users = Without(b.users, u), !.user_roles = Without(b.user_roles, u)]

Answer(b, r, status) == [b EXCEPT !.calls[r].pc = status]

\* The first check: select id from user_roles where role = 'admin' limit 1.
CheckAdmins(r) ==
    /\ bootstrap.pc = "on"
    /\ bootstrap.calls[r].pc = "check"
    /\ \/ bootstrap' = Answer(bootstrap, r, "500")
       \/ bootstrap' = Answer(bootstrap, r,
                              IF Admins(bootstrap.user_roles, 0) # {}
                              THEN "403" ELSE "create")
    /\ Backstage

\* auth.admin.createUser: refused for an email that is registered.
CreateUser(r) ==
    /\ bootstrap.pc = "on"
    /\ bootstrap.calls[r].pc = "create"
    /\ \/ bootstrap' = Answer(bootstrap, r, "500")
       \/ bootstrap' =
             IF \E u \in DOMAIN bootstrap.users :
                    bootstrap.users[u] = bootstrap.calls[r].email
             THEN Answer(bootstrap, r, "409")
             ELSE [Answer(bootstrap, r, "recheck") EXCEPT
                     !.users = (r :> bootstrap.calls[r].email) @@ bootstrap.users,
                     !.user_roles = (r :> "user") @@ bootstrap.user_roles]
    /\ Backstage

\* The second check, without the user just created, and the rollback.
Recheck(r) ==
    /\ bootstrap.pc = "on"
    /\ bootstrap.calls[r].pc = "recheck"
    /\ bootstrap' =
          IF Admins(bootstrap.user_roles, r) # {}
          THEN Answer(deleteUser(bootstrap, r), r, "409")
          ELSE Answer(bootstrap, r, "assign")
    /\ Backstage

\* update({ role: 'admin' }).eq('user_id', id), and the cleanup on its error.
AssignRole(r) ==
    /\ bootstrap.pc = "on"
    /\ bootstrap.calls[r].pc = "assign"
    /\ \/ bootstrap' = Answer(deleteUser(bootstrap, r), r, "500")
       \/ bootstrap' =
             [Answer(bootstrap, r, "200") EXCEPT
                !.user_roles = [u \in DOMAIN bootstrap.user_roles |->
                                   IF u = r THEN "admin"
                                   ELSE bootstrap.user_roles[u]]]
    /\ Backstage

NextBootstrap ==
    \E r \in Callers :
        CheckAdmins(r) \/ CreateUser(r) \/ Recheck(r) \/ AssignRole(r)

BootstrapSpec == InitBootstrap /\ [][NextBootstrap]_vars

\* ------------------------------------------------------ demo view counts
\* generateDemoViews with its two calls of Math.random() as inputs: random in
\* hundredths picks the range by the cumulated weights, fraction in
\* hundredths the value in the range.
ranges ==
    << [min |-> 1000, max |-> 10000, weight |-> 40],
       [min |-> 10000, max |-> 100000, weight |-> 35],
       [min |-> 100000, max |-> 1000000, weight |-> 20],
       [min |-> 1000000, max |-> 10000000, weight |-> 5] >>

Hundredths == 100

\* Values of Math.random() tried, in hundredths: 0 <= random < 1.
Randoms == {0, 40, 41, 75, 95, 96, 99}

cumWeight(k) == IF k = 1 THEN ranges[1].weight
                ELSE IF k = 2 THEN ranges[1].weight + ranges[2].weight
                ELSE IF k = 3 THEN ranges[1].weight + ranges[2].weight + ranges[3].weight
                ELSE ranges[1].weight + ranges[2].weight + ranges[3].weight
                         + ranges[4].weight

\* Math.floor(fraction * (max - min) + min)
Scaled(fraction, min, max) == ((fraction * (max - min)) \div Hundredths) + min

generateDemoViewsInclusive(random, fraction) ==
    LET hit == {k \in 1..4 : random <= cumWeight(k)} IN
    IF hit = {} THEN Scaled(fraction, 5000, 55000)
    ELSE LET range == ranges[CHOOSE k \in hit : \A m \in hit : k <= m]
         IN  Scaled(fraction + 1, range.min, range.max)

generateDemoViews(random, fraction) ==
    LET hit == {k \in 1..4 : random <= cumWeight(k)} IN
    IF hit = {} THEN Scaled(fraction, 5000, 55000)
    ELSE LET range == ranges[CHOOSE k \in hit : \A m \in hit : k <= m]
         IN  Scaled(fraction, range.min, range.max)

\* Sheets that hold one link and nothing else.
InitScenario ==
    /\ \E c \in LinkArea : sheet = Worksheet({c}, [d \in {c} |-> "link"])
    /\ format = "vertical"
    /\ plan = <<>>
    /\ viewsByIgId = <<>>
    /\ sheetPc = "loaded"
    /\ NoCalls
    /\ links = 1
    /\ job = NewJob(1, TRUE)
    /\ workers = [w \in Workers |-> IdleWorker]
    /\ clientView = "pending"
    /\ resumePc = "idle"
    /\ nreq = 0
    /\ req = "none"

\* The demo branch with the view counts it generates.
FetchDemo ==
    /\ sheetPc = "planned"
    /\ \E result \in [1..Len(plan) ->
                         {generateDemoViews(random, fraction) :
                             random \in Randoms, fraction \in Randoms}] :
          viewsByIgId' = MergeViews(plan, result)
    /\ sheetPc' = "fetched"
    /\ UNCHANGED <<sheet, format, plan>>
    /\ Offstage

NextScenario == PlanPlacement \/ FetchDemo \/ WriteBack

ScenarioSpec == InitScenario /\ [][NextScenario]_vars

\* --------------------------------------------------- fetch loop by id
\* The fetch loops of processJob on the ids of the links, with the call of
\* fetchWithApify step by step.  plan holds the igId of every link.
maxAttempts == 24

\* Ids of links: two shortcodes, and one that names a property every plain
\* object inherits ('constructor' matches [A-Za-z0-9_-]+ as well).
Ids == {"a", "b"}

Inherited == {"constructor"}

\* `key in obj` for a plain object: own and inherited properties.
HasProperty(obj, key) == key \in DOMAIN obj \/ key \in Inherited

\* obj[key] = value (an own property, also for an inherited name).
SetProperty(obj, key, value) ==
    [k \in DOMAIN obj \cup {key} |-> IF k = key THEN value ELSE obj[k]]

\* Statuses of an actor run: the three the loop tests, and one of the others.
RunStatuses == {"RUNNING", "SUCCEEDED", "FAILED", "ABORTED", "TIMED-OUT"}

\* urls.slice(i, i + batchSize) as ids.
Batch(ls, i) == {ls[k].igId : k \in (i + 1)..Min(i + batchSize, Len(ls))}

BatchLen(ls, i) == Min(i + batchSize, Len(ls)) - i

InitFetch ==
    /\ \E n \in 0..(MaxLinks + 1) :
          \E ids \in [1..n -> Ids \cup Inherited] :
              plan = [k \in 1..n |-> [igId |-> ids[k]]]
    /\ \E apiMode \in ApiModes :
          loop = [pc |-> "fetch", apiMode |-> apiMode, i |-> 0, failedCount |-> 0]
    /\ apifyRun = IdleRun
    /\ hikerCall = IdleCall
    /\ bootstrap = NoBootstrap
    /\ viewsByIgId = <<>>
    /\ sheet = <<>>
    /\ format = "vertical"
    /\ sheetPc = "off"
    /\ links = Len(plan)
    /\ job = ProcessingRow(NewJob(links, TRUE))
    /\ workers = [w \in Workers |-> IdleWorker]
    /\ clientView = "pending"
    /\ resumePc = "idle"
    /\ nreq = 0
    /\ req = "none"

Elsewhere ==
    UNCHANGED <<links, workers, clientView, resumePc, nreq, req, sheet, format,
                plan, sheetPc, hikerCall, bootstrap>>

\* demo branch, one link.
DemoLink ==
    /\ loop.pc = "fetch" /\ loop.apiMode = "demo" /\ loop.i < Len(plan)
    /\ viewsByIgId' = SetProperty(viewsByIgId, plan[loop.i + 1].igId, "views")
    /\ job' = IF DemoCheckpointDue(loop.i, Len(plan))
              THEN [job EXCEPT !.processed_links = loop.i + 1] ELSE job
    /\ loop' = [loop EXCEPT !.i = loop.i + 1]
    /\ UNCHANGED apifyRun
    /\ Elsewhere

\* hiker branch, one link: the outcome of fetchSingleHikerUrl is stored under
\* the id; 'Error' and 'N/A' count as failed.
HikerLink ==
    /\ loop.pc = "fetch" /\ loop.apiMode = "hiker" /\ loop.i < Len(plan)
    /\ \E outcome \in HikerOutcomes :
          /\ viewsByIgId' = SetProperty(viewsByIgId, plan[loop.i + 1].igId, outcome)
          /\ loop' = [loop EXCEPT
                        !.i = loop.i + 1,
                        !.failedCount = IF outcome \in {"Error", "N/A"}
                                        THEN loop.failedCount + 1
                                        ELSE loop.failedCount]
    /\ job' = [job EXCEPT !.processed_links = loop.i + 1,
                          !.failed_links = loop'.failedCount]
    /\ UNCHANGED apifyRun
    /\ Elsewhere

\* apify branch: fetchWithApify(batch, apiKey) is called.
ApifyCall ==
    /\ loop.pc = "fetch" /\ loop.apiMode = "apify" /\ loop.i < Len(plan)
    /\ loop' = [loop EXCEPT !.pc = "call"]
    /\ apifyRun' = [IdleRun EXCEPT !.pc = "start"]
    /\ UNCHANGED <<job, viewsByIgId>>
    /\ Elsewhere

InCall == UNCHANGED <<job, viewsByIgId, loop>> /\ Elsewhere

\* The request that starts the run: a response that is not ok throws.
RunStart ==
    /\ apifyRun.pc = "start"
    /\ \E ok \in BOOLEAN :
          apifyRun' = [apifyRun EXCEPT !.pc = IF ok THEN "poll" ELSE "thrown"]
    /\ InCall

\* What the loop does with the status of one poll.
PolledLenient(run, status) ==
    LET polled == [run EXCEPT !.polls = run.polls + 1, !.status = status] IN
    IF status # "RUNNING" THEN [polled EXCEPT !.pc = "dataset"]
    ELSE [polled EXCEPT !.attempts = run.attempts + 1]

Polled(run, status) ==
    LET polled == [run EXCEPT !.polls = run.polls + 1, !.status = status] IN
    IF status = "SUCCEEDED" THEN [polled EXCEPT !.pc = "dataset"]
    ELSE IF status \in {"FAILED", "ABORTED"} THEN [polled EXCEPT !.pc = "thrown"]
    ELSE [polled EXCEPT !.attempts = run.attempts + 1]

\* One iteration of while (attempts < maxAttempts).
PollStatus ==
    /\ apifyRun.pc = "poll"
    /\ apifyRun.attempts < maxAttempts
    /\ \E status \in RunStatuses : apifyRun' = Polled(apifyRun, status)
    /\ InCall

\* if (attempts >= maxAttempts) throw new Error('Actor run timed out')
PollTimedOut ==
    /\ apifyRun.pc = "poll"
    /\ apifyRun.attempts >= maxAttempts
    /\ apifyRun' = [apifyRun EXCEPT !.pc = "thrown"]
    /\ InCall

\* The map fetchWithApify answers for the items of the dataset: the views
\* (or 'N/A') of every id an item matched, and 'Error' for every requested
\* id that is not `in` the map.
ApifyMap(items, requested) ==
    [id \in DOMAIN items \cup {r \in requested : ~HasProperty(items, r)} |->
        IF id \in DOMAIN items THEN items[id] ELSE "Error"]

FetchDataset ==
    /\ apifyRun.pc = "dataset"
    /\ \E matched \in SUBSET Batch(plan, loop.i) :
          \E items \in [matched -> {"views", "N/A"}] :
              apifyRun' = [apifyRun EXCEPT
                              !.pc = "returned",
                              !.items = items,
                              !.batchViews = ApifyMap(items, Batch(plan, loop.i))]
    /\ InCall

\* Object.entries(batchViews).forEach: merge, and count the 'Error' entries.
MergeBatch(byId, batchViews) ==
    [id \in DOMAIN byId \cup DOMAIN batchViews |->
        IF id \in DOMAIN batchViews THEN batchViews[id] ELSE byId[id]]

ProgressRow(j, processedCount, failedCount) ==
    [j EXCEPT !.processed_links = processedCount, !.failed_links = failedCount]

\* The batch came back: merge, then the progress update.
BatchMerged ==
    /\ loop.pc = "call" /\ apifyRun.pc = "returned"
    /\ viewsByIgId' = MergeBatch(viewsByIgId, apifyRun.batchViews)
    /\ loop' = [loop EXCEPT
                  !.pc = "fetch",
                  !.i = loop.i + batchSize,
                  !.failedCount = loop.failedCount + Cardinality(
                      {id \in DOMAIN apifyRun.batchViews :
                          apifyRun.batchViews[id] = "Error"})]
    /\ job' = ProgressRow(job, ApifyProcessed(loop.i, Len(plan)), loop'.failedCount)
    /\ apifyRun' = IdleRun
    /\ Elsewhere

\* fetchWithApify threw: every url of the batch is marked, and counted.
BatchFailed ==
    /\ loop.pc = "call" /\ apifyRun.pc = "thrown"
    /\ viewsByIgId' = MergeBatch(viewsByIgId,
                                 [id \in Batch(plan, loop.i) |-> "Error"])
    /\ loop' = [loop EXCEPT
                  !.pc = "fetch",
                  !.i = loop.i + batchSize,
                  !.failedCount = loop.failedCount + BatchLen(plan, loop.i)]
    /\ job' = ProgressRow(job, ApifyProcessed(loop.i, Len(plan)), loop'.failedCount)
    /\ apifyRun' = IdleRun
    /\ Elsewhere

\* After the loop: the completed update (write-back and upload left out).
LoopCompleted ==
    /\ loop.pc = "fetch" /\ loop.i >= Len(plan)
    /\ job' = CompletedRow(job, Len(plan), loop.failedCount)
    /\ loop' = [loop EXCEPT !.pc = "done"]
    /\ UNCHANGED <<apifyRun, viewsByIgId>>
    /\ Elsewhere

NextFetch ==
    \/ DemoLink
    \/ HikerLink
    \/ ApifyCall
    \/ RunStart
    \/ PollStatus
    \/ PollTimedOut
    \/ FetchDataset
    \/ BatchMerged
    \/ BatchFailed
    \/ LoopCompleted

FetchSpec == InitFetch /\ [][NextFetch]_vars

\* Every awaited response arrives.
FairFetchSpec == FetchSpec /\ WF_vars(NextFetch)

\* ------------------------------------------------------------- vocabulary
\* A systemic failure has occurred: an invocation threw, or a call of the
\* entrypoint failed.
Faulted == \E w \in Workers : workers[w].pc \in {"catch", "aborted", "rejected"}

\* Workers past the status update and not yet returned.
Driving == {w \in Workers : workers[w].pc \in
              {"download", "total", "settings", "fetch", "ckpt", "upload", "complete"}}

\* ------------------------------------------------------------------ claims

\* C1: once the status is Completed or Failed, no step of a worker and no
\* pause, resume or cancel request changes it.
C1_TerminalStatus ==
    [][job.status \in {"completed", "failed"} => job'.status = job.status]_vars

\* C2: at most one invocation of processJob is past the status update and
\* driving the job (fetching, writing checkpoints) at any time.
C2_SingleWorker == Cardinality(Driving) <= 1

\* C3: while the status is Paused, a worker that passes a checkpoint does not
\* go on to a further fetch, and the status leaves Paused only by a resume
\* or cancel request (a systemic failure may still end the job as Failed);
\* in particular no worker overwrites Paused with Completed.
C3_PauseObserved ==
    [][job.status = "paused" =>
         /\ job'.status \notin {"paused", "failed"} => req' = "resume"
         /\ \A w \in Workers :
               (workers[w].pc = "ckpt" /\ workers'[w].pc # "ckpt")
                   => workers'[w].pc # "fetch"]_vars

\* C4: after a pause followed by a resume (the re-invocation has been
\* accepted), the job eventually is Completed with processed_links equal to
\* total_links, unless a systemic failure occurs; worker steps are fair.
C4_ResumeCompletes ==
    (req = "invoke") ~>
        (\/ (job.status = "completed" /\ job.processed_links = job.total_links)
         \/ Faulted)

\* A resumed invocation has returned and left the job Completed with every
\* link processed, without any failure.
C4_Witness ==
    /\ \E w \in Workers : workers[w].by = "resume" /\ workers[w].pc = "done"
    /\ job.status = "completed"
    /\ job.processed_links = job.total_links
    /\ links > 0
    /\ ~Faulted

\* C5: failed_links never decreases, over checkpoints of one invocation and
\* over re-invocations after a resume.
C5_FailedMonotonic == [][job'.failed_links >= job.failed_links]_vars

\* C6: in every reachable state processed_links <= total_links.
C6_ProcessedAtMostTotal == job.processed_links <= job.total_links

\* A bulk worker is about to checkpoint a last, partial batch: the clamp of
\* processedCount to the number of links is what keeps the counter at total.
C6_Witness ==
    /\ \E w \in Workers : /\ workers[w].apiMode = "apify"
                          /\ workers[w].pc = "ckpt"
                          /\ workers[w].i + batchSize > links
                          /\ workers[w].processedCount = job.total_links
    /\ links > 0

\* C7: in every reachable state failed_links <= processed_links.
C7_FailedAtMostProcessed == job.failed_links <= job.processed_links

\* C8: an invocation started by a resume issues no provider fetch for a link
\* that was already processed when the resume was requested (pc = "ckpt"
\* is the state right after the fetch of link i, or of the batch from i).
C8_ResumeSkipsProcessed ==
    \A w \in Workers :
        (workers[w].by = "resume" /\ workers[w].pc = "ckpt"
            /\ workers[w].apiMode # "demo")
        => workers[w].i >= workers[w].resumeBase

\* C9: a pause request issued while the status is not Processing leaves
\* status and paused_at unchanged.
C9_PauseOnlyFromProcessing ==
    [][(req' = "pause" /\ job.status # "processing")
          => (job'.status = job.status /\ job'.paused_at = job.paused_at)]_vars

\* C10: a resume request issued while the status is not Paused leaves the
\* status unchanged and does not go on to invoke the entrypoint.
C10_ResumeOnlyFromPaused ==
    [][(req' = "resume" /\ job.status # "paused")
          => (job'.status = job.status /\ resumePc' = "idle")]_vars

\* C11: a cancel request issued while the status is Pending, Completed or
\* Failed leaves status and error_message unchanged; issued on Processing or
\* Paused it moves the job to Failed with the reason as error_message.
C11_CancelOnlyFromActive ==
    [][req' = "cancel" =>
         IF job.status \in {"processing", "paused"}
         THEN job'.status = "failed" /\ job'.error_message = "cancelled"
         ELSE job'.status = job.status
              /\ job'.error_message = job.error_message]_vars

\* C12: in every reachable state error_message is set only if the status is
\* Failed.
C12_ErrorOnlyOnFailed == job.error_message # "null" => job.status = "failed"

\* C13: an invocation that hit a systemic failure (missing source path,
\* failed download, no worksheet, missing provider key, failed upload) leaves
\* its catch handler with the job Failed and error_message set, and takes no
\* further step: it never writes Completed.
C13_FailureEndsFailed ==
    [][\A w \in Workers :
         /\ (workers[w].pc = "catch" /\ workers'[w] # workers[w])
               => /\ job'.status = "failed"
                  /\ job'.error_message # "null"
                  /\ workers'[w].pc = "aborted"
         /\ workers[w].pc = "aborted" => workers'[w] = workers[w]]_vars

\* An invocation has returned from its catch handler and the job is Failed
\* with the message of the exception.
C13_Witness ==
    /\ \E w \in Workers : workers[w].pc = "aborted"
    /\ job.status = "failed"
    /\ job.error_message = "error"

\* C14: an invocation whose bulk call ended with the polling timeout takes no
\* further step except into its catch handler: no checkpoint, no next batch,
\* no Completed.
C14_TimeoutFatal ==
    [][\A w \in Workers :
         (workers[w].last = "timeout" /\ workers'[w] # workers[w])
             => workers'[w].pc \in {"catch", "aborted"}]_vars

Target(i) == <<plan[i].viewsRow, plan[i].viewsCol>>

\* The candidates of a link in the order of its layout.
Candidates(fmt, link) ==
    IF fmt = "horizontal-below"
    THEN << <<link.row + 1, link.col>>, <<link.row + 2, link.col>> >>
    ELSE << <<link.row, link.col + 1>>, <<link.row, link.col + 2>>,
            <<link.row + 1, link.col>> >>

\* Candidates of link i that neither match the link pattern nor are the
\* views cell of an earlier link of the plan (positions in Candidates).
SafeCandidates(ws, i) ==
    {k \in DOMAIN Candidates(format, plan[i]) :
        LET c == Candidates(format, plan[i])[k] IN
        /\ ~isInstagramUrl(ws[c])
        /\ \A j \in 1..(i - 1) : Target(j) # c}

\* C16: no two links of the plan have the same views cell.
C16_DistinctTargets ==
    sheetPc = "planned" =>
        \A i, j \in 1..Len(plan) : i # j => Target(i) # Target(j)

\* C17: the views cell of a link is never the cell of a link of the plan,
\* the last fallback candidate included.
C17_TargetNotLinkCell ==
    sheetPc = "planned" =>
        \A i, j \in 1..Len(plan) : Target(i) # <<plan[j].row, plan[j].col>>

\* C18: after the write-back every cell that held a link still holds it.
C18_LinksSurviveWrite ==
    sheetPc = "written" =>
        \A i \in 1..Len(plan) : sheet[<<plan[i].row, plan[i].col>>] = "link"

\* C19: whenever a link has a safe candidate, its views cell is the first
\* safe one in the order of the layout: (row+1, col), (row+2, col) for
\* horizontal-below; (row, col+1), (row, col+2), (row+1, col) otherwise.
C19_FirstSafeCandidate ==
    sheetPc = "planned" =>
        \A i \in 1..Len(plan) :
            SafeCandidates(sheet, i) # {} =>
                \E k \in SafeCandidates(sheet, i) :
                    /\ \A m \in SafeCandidates(sheet, i) : k <= m
                    /\ Target(i) = Candidates(format, plan[i])[k]

\* C20: the write-back writes nothing for a link none of whose candidates is
\* safe: its views cell keeps its content, unless it is also the views cell
\* of a link that has a safe candidate.
C20_UnplaceableNotWritten ==
    [][(sheetPc = "fetched" /\ sheetPc' = "written") =>
          \A i \in 1..Len(plan) :
              SafeCandidates(sheet, i) = {} =>
                  \/ sheet'[Target(i)] = sheet[Target(i)]
                  \/ \E j \in 1..Len(plan) :
                        /\ SafeCandidates(sheet, j) # {}
                        /\ Target(j) = Target(i)]_vars

\* C28: a job whose sheet holds no link (no cell an id can be extracted
\* from) never enters the fetch loop and never becomes Completed.
C28_NoLinksNeverCompleted ==
    links = 0 =>
        /\ job.status # "completed"
        /\ \A w \in Workers : workers[w].pc \notin {"fetch", "ckpt"}

\* C29: an undisturbed invocation in demo mode makes no provider call and
\* persists processed_links after every batchSize-th link and after the last
\* one: each write raises the persisted value from a multiple of batchSize
\* to the next one, or to the number of links, and a fetch of link i starts
\* with the last multiple of batchSize below i persisted.
C29_DemoCheckpoints ==
    /\ [](\A w \in Workers :
            (workers[w].apiMode = "demo" /\ workers[w].pc \in {"fetch", "ckpt"})
                => /\ workers[w].last = "none"
                   /\ job.processed_links = workers[w].i - (workers[w].i % batchSize))
    /\ [][\A w \in Workers :
            (workers[w].apiMode = "demo" /\ workers[w].pc = "ckpt"
                /\ workers'[w] # workers[w])
                => /\ job'.processed_links = Min(job.processed_links + batchSize, links)
                   /\ job'.processed_links = job'.total_links
                         \/ job'.processed_links % batchSize = 0]_vars

\* A demo invocation on a sheet of more than two batches has persisted 20
\* and is about to persist the total.
C29_Witness ==
    \E w \in Workers :
        /\ workers[w].apiMode = "demo"
        /\ workers[w].pc = "ckpt"
        /\ links > 2 * batchSize
        /\ workers[w].processedCount = links
        /\ job.processed_links = 2 * batchSize

\* C30: an undisturbed invocation in hiker mode fetches link after link and
\* persists processed_links after each: the request for link i starts with
\* exactly i links persisted, and each write raises the persisted value by
\* one, up to the number of links.
C30_HikerCheckpoints ==
    /\ [](\A w \in Workers :
            (workers[w].apiMode = "hiker" /\ workers[w].pc = "fetch")
                => job.processed_links = workers[w].i)
    /\ [][\A w \in Workers :
            (workers[w].apiMode = "hiker" /\ workers[w].pc = "ckpt"
                /\ workers'[w] # workers[w])
                => /\ job'.processed_links = job.processed_links + 1
                   /\ job'.processed_links <= job'.total_links
                   /\ workers'[w].pc = "upload"
                         <=> job'.processed_links = job'.total_links]_vars

\* A hiker invocation has persisted every link but the last and is about to
\* persist the last one.
C30_Witness ==
    \E w \in Workers :
        /\ workers[w].apiMode = "hiker"
        /\ workers[w].pc = "ckpt"
        /\ links > batchSize
        /\ workers[w].processedCount = links
        /\ job.processed_links = links - 1

\* C24: domain-only matches are excluded: every link of the placement plan
\* is a cell an id is extracted from, and the total_links of the job counts
\* only such cells.
C24_DomainOnlyExcluded ==
    sheetPc \in {"loaded", "planned"} =>
        /\ \A i \in 1..Len(plan) :
              extractInstagramId(getCellValue(sheet, plan[i].row, plan[i].col)) # "null"
        /\ job.total_links = LinkCount(sheet)

LinkCells(ws) == {c \in Cells : extractInstagramId(ws[c]) # "null"}

LinkColumns(ws) == {c[2] : c \in LinkCells(ws)}

\* At least two links, in at least two columns, and every two neighbouring
\* columns of links are exactly two apart.
ColumnsAlternate(ws) ==
    /\ Cardinality(LinkCells(ws)) >= 2
    /\ Cardinality(LinkColumns(ws)) >= 2
    /\ \A c, d \in LinkColumns(ws) :
          c < d => /\ (d - c) % 2 = 0
                   /\ c + 2 \in LinkColumns(ws)

RowMates(ws, c) == {d \in LinkCells(ws) : d[1] = c[1] /\ d # c}

\* The scan and the classification have run, on the server or on the client.
Classified == sheetPc \in {"planned", "parsed"}

\* C21: a sheet with at least two links whose columns are two apart from one
\* to the next is classified alternating, whether or not links share a row
\* and whatever the cells between them hold.
C21_AlternatingFirst ==
    (Classified /\ ColumnsAlternate(sheet)) => format = "alternating"

\* C22: a sheet whose link columns do not alternate, in which every link
\* shares its row with exactly one other link, the cell below every link is
\* empty and the cell right of every link is neither empty nor numeric, is
\* classified horizontal-below ('horizontal' on the client).
C22_HorizontalBelow ==
    (/\ Classified
     /\ LinkCells(sheet) # {}
     /\ ~ColumnsAlternate(sheet)
     /\ \A c \in LinkCells(sheet) :
           /\ Cardinality(RowMates(sheet, c)) = 1
           /\ isEmpty(sheet[<<c[1] + 1, c[2]>>])
           /\ ~isEmpty(sheet[<<c[1], c[2] + 1>>])
           /\ ~isNumber(sheet[<<c[1], c[2] + 1>>]))
        => format \in {"horizontal-below", "horizontal"}

\* C23: a sheet with fewer than two links, and a sheet whose link columns do
\* not alternate and in which no row holds more than one link, is classified
\* vertical.
C23_VerticalOtherwise ==
    (/\ Classified
     /\ \/ Cardinality(LinkCells(sheet)) < 2
        \/ /\ ~ColumnsAlternate(sheet)
           /\ \A c \in LinkCells(sheet) : RowMates(sheet, c) = {})
        => format = "vertical"

\* C25: a second run of the writer on its own output, with the same
\* outcomes, changes no cell, whatever the outcomes are (a view count,
\* 'N/A', 'Error'): on the client the second updateExcelWithViews leaves the
\* sheet as the first left it, on the server the write-back loop applied to
\* its own result answers that result.
C25_WriterIdempotent ==
    [][/\ (sheetPc = "updated" /\ sheetPc' = "updated again") => sheet' = sheet
       /\ (sheetPc = "fetched" /\ sheetPc' = "written")
             => WriteViews(sheet', plan, 1, viewsByIgId) = sheet']_vars

\* C26: the writer changes no cell but the views cell (viewsRow, viewsCol)
\* of a link of the plan that has an outcome.
C26_WriterFrame ==
    [][/\ (sheetPc = "mapped" /\ sheetPc' = "updated")
             => \A c \in Cells :
                    sheet'[c] # sheet[c]
                        => \E i \in 1..Len(plan) :
                              /\ Target(i) = c
                              /\ plan[i].url \in DOMAIN viewsByIgId
       /\ (sheetPc = "fetched" /\ sheetPc' = "written")
             => \A c \in Cells :
                    sheet'[c] # sheet[c]
                        => \E i \in 1..Len(plan) :
                              /\ Target(i) = c
                              /\ plan[i].igId \in DOMAIN viewsByIgId]_vars

\* C31: a call of fetchWithApify polls the status of the run at most
\* maxAttempts (24) times, reaches the dataset only after a poll answered
\* SUCCEEDED, and always ends: it returns the map of the dataset or throws.
C31_PollingBounded ==
    /\ [](apifyRun.polls <= maxAttempts)
    /\ [](apifyRun.pc \in {"dataset", "returned"} => apifyRun.status = "SUCCEEDED")
    /\ (apifyRun.pc = "start") ~> (apifyRun.pc \in {"returned", "thrown"})

\* The run was polled 24 times without ending, and the call threw.
C31_Witness ==
    /\ apifyRun.pc = "thrown"
    /\ apifyRun.polls = maxAttempts
    /\ apifyRun.status \in {"RUNNING", "TIMED-OUT"}

\* C32: when a batch of the apify branch has been handled, every id of the
\* batch has an entry in viewsByIgId: 'Error' if the call threw, 'Error' if
\* no item of the dataset matched the id, else what the item gave.
C32_EveryIdHasOutcome ==
    [][(loop.pc = "call" /\ loop'.pc = "fetch") =>
          \A id \in Batch(plan, loop.i) :
              /\ id \in DOMAIN viewsByIgId'
              /\ viewsByIgId'[id] =
                    IF apifyRun.pc = "thrown" \/ id \notin DOMAIN apifyRun.items
                    THEN "Error"
                    ELSE apifyRun.items[id]]_vars

\* C36: when the job is completed, failed_links is the number of links whose
\* final outcome is 'Error', in every mode.
C36_FailedCountsErrors ==
    (loop.pc = "done" /\ job.status = "completed") =>
        job.failed_links =
            Cardinality({k \in 1..Len(plan) :
                            /\ plan[k].igId \in DOMAIN viewsByIgId
                            /\ viewsByIgId[plan[k].igId] = "Error"})

C34_ScenarioA ==
    (/\ sheetPc \in {"planned", "fetched", "written"}
     /\ plan[1].row = 2 /\ plan[1].col = 1)
        => /\ format = "vertical"
           /\ Target(1) = <<2, 2>>
           /\ sheetPc \in {"fetched", "written"}
                 => /\ viewsByIgId[plan[1].igId] \in Int
                    /\ viewsByIgId[plan[1].igId] >= 1000
                    /\ viewsByIgId[plan[1].igId] < 10000000
           /\ sheetPc = "written" => sheet[<<2, 2>>] = viewsByIgId[plan[1].igId]

\* The link at (2,1) got a count of the highest range, written to (2,2).
C34_Witness ==
    /\ sheetPc = "written"
    /\ plan[1].row = 2 /\ plan[1].col = 1
    /\ sheet[<<2, 2>>] >= 1000000

\* C35: whenever the job is completed, processed_links equals total_links
\* and result_file_path is set.
C35_CompletedIsWhole ==
    job.status = "completed" =>
        /\ job.processed_links = job.total_links
        /\ job.result_file_path

\* An attempt that came back with an ok response and a body that parsed.
AttemptOk == {"200 no views", "200 views"}

\* What fetchSingleHikerUrl has returned, with ok the responses that make
\* an attempt ok: the attempts are the first of original, /reel/<id>/, /p/<id>/
\* in that order, none before the last is ok, the outcome is a view count or
\* N/A by the last attempt when that is ok, and Error exactly when no id was
\* extracted or three attempts were made and none is ok.
HikerContract(ok) ==
    hikerCall.pc = "returned" =>
        LET tried == hikerCall.tried
            n     == Len(tried)
            views == hikerCall.result.views
        IN  /\ n <= 3
            /\ \A k \in 1..n :
                  /\ tried[k].targetUrl.form = <<"original", "reel", "p">>[k]
                  /\ k < n => tried[k].response \notin ok
            /\ (n > 0 /\ tried[n].response \in ok) =>
                  views = IF tried[n].response = "200 views" THEN "views" ELSE "N/A"
            /\ views = "Error" <=>
                  \/ hikerCall.igId = "null"
                  \/ n = 3 /\ \A k \in 1..3 : tried[k].response \notin ok

\* C37 as stated: an attempt is ok when its response is ok.
C37_StopsAtOkResponse == HikerContract({response \in Responses : ResponseOk(response)})

\* C37, amended: an attempt is ok when its response is ok and its body
\* parses; fetchSingleHikerUrl tries at most the three URLs in order, stops at
\* the first such attempt, returns its view count or N/A, and returns Error
\* exactly when no id is extracted or all three attempts are not ok.
C37_StopsAtOkAttempt == HikerContract(AttemptOk)

\* The third URL gave the view count, after an ok response that did not parse.
C37_Witness ==
    /\ hikerCall.pc = "returned"
    /\ Len(hikerCall.tried) = 3
    /\ hikerCall.tried[1].response = "200 not json"
    /\ hikerCall.tried[3].response = "200 views"
    /\ hikerCall.result.views = "views"

\* The vote ran: the sheet is parsed, not alternating, some row holds two links.
VoteRan ==
    /\ sheetPc = "parsed"
    /\ format # "alternating"
    /\ hasMultipleLinksPerRow(clientLinks(sheet))

\* C38 as stated: when the vote runs, a link whose below cell is a link URL
\* scores right, a link whose right cell is a link URL scores below, and the
\* format is horizontal exactly when the below votes exceed the right votes.
C38_MajorityVote ==
    sheetPc = "parsed" =>
        LET ls == clientLinks(sheet)
            RightIsLink(link) ==
                isInstagramUrl(getCellValue(sheet, link.row, link.col + 1))
            BelowIsLink(link) ==
                isInstagramUrl(getCellValue(sheet, link.row + 1, link.col))
        IN
        /\ VoteRan =>
              \A i \in 1..Len(ls) :
                  /\ BelowIsLink(ls[i]) => Vote(sheet, ls[i]) = "right"
                  /\ RightIsLink(ls[i]) => Vote(sheet, ls[i]) = "below"
        /\ format = "horizontal" <=>
              VoteRan /\ preferBelow(sheet, ls) > preferRight(sheet, ls)

\* C38, amended: when the vote runs, a link whose below cell is a link URL
\* scores right, a link whose right cell is a link URL and whose below cell is
\* none scores below, and the format is horizontal exactly when the vote ran
\* and the below votes strictly exceed the right votes (a tie is vertical).
C38_MajorityVoteBelowFirst ==
    sheetPc = "parsed" =>
        LET ls == clientLinks(sheet)
            RightIsLink(link) ==
                isInstagramUrl(getCellValue(sheet, link.row, link.col + 1))
            BelowIsLink(link) ==
                isInstagramUrl(getCellValue(sheet, link.row + 1, link.col))
        IN
        /\ VoteRan =>
              \A i \in 1..Len(ls) :
                  /\ BelowIsLink(ls[i]) => Vote(sheet, ls[i]) = "right"
                  /\ (RightIsLink(ls[i]) /\ ~BelowIsLink(ls[i]))
                        => Vote(sheet, ls[i]) = "below"
        /\ format = "horizontal" <=>
              VoteRan /\ preferBelow(sheet, ls) > preferRight(sheet, ls)

\* The vote ran and ended in a tie with votes on both sides: vertical.
C38_Witness ==
    /\ VoteRan
    /\ preferBelow(sheet, clientLinks(sheet)) = preferRight(sheet, clientLinks(sheet))
    /\ preferBelow(sheet, clientLinks(sheet)) > 0
    /\ format = "vertical"

\* C39: a job in Processing does not stay there forever: it eventually is
\* Paused, Completed or Failed, also when the re-invocation of a resume is
\* rejected or the update of the catch handler fails; worker steps are fair.
C39_ProcessingIsDriven ==
    (job.status = "processing") ~> (job.status \in {"paused", "completed", "failed"})

\* C40: for every interleaving of concurrent bootstrap calls from a state
\* without admin, at most one user holds the admin role, and a call that has
\* answered without success has left no user it created.
C40_OneAdmin ==
    bootstrap.pc = "on" =>
        /\ Cardinality(Admins(bootstrap.user_roles, 0)) <= 1
        /\ \A r \in Callers :
              bootstrap.calls[r].pc \in {"403", "409", "500"}
                  => r \notin DOMAIN bootstrap.users

====
